---------------------------- MODULE Spec2Model ----------------------------
(***************************************************************************)
(* Gemini TTS Studio: the usage ledger and rate limiter (managers.py), the *)
(* settings the limiter reads (data_manager.py) and the batch generation   *)
(* and regeneration workflow of a Streamlit session (app.py).              *)
(*                                                                         *)
(* Strings of the program are sequences of one-character strings, so that  *)
(* str.split and str.strip are computed and not assumed.  A script text is *)
(* the sequence of its lines (the text joined by newlines).                *)
(***************************************************************************)
EXTENDS Integers, Sequences, FiniteSets, TLC

VARIABLES
  now,              \* time.time(), in seconds
  ticks,            \* how often the clock has advanced
  clicks,           \* how many buttons and widgets have been used
  settings,         \* settings.json as DataManager.load_settings returns it
  usage_log,        \* usage_log.json
  history,          \* history.json, newest first
  pc,               \* per session: where its script run stands
  parsed_tasks,     \* per session: local parsed_tasks of the batch run
  idx,              \* per session: 1-based position of the batch loop
  successful_tasks, \* per session: local successful_tasks of the batch run
  active_model,     \* per session: local active_model of the running handler
  allowed,          \* per session: last result of RateLimiter.check_limit
  msg,              \* per session: reason returned with the last check
  all_usage,        \* per session: local all_usage of a running log_request
  regen_idx,        \* per session: the task being regenerated (0: none)
  batch_results,    \* per session: st.session_state["batch_results"]
  errors,           \* per session: what the running handler reported (st.error)
  progress,         \* per session: last value given to progress_bar.progress
  calls,            \* per session: generate_speech calls of the running handler
  script_input,     \* per session: the text of the "Script Input" box
  button,           \* per session: the widget that started the last script run
  batch_temp_dir,   \* per session: st.session_state["batch_temp_dir"] (0: no key)
  final_zip_path,   \* per session: st.session_state["final_zip_path"] (0: no key)
  disk,             \* the temp directories that exist, with what is in them
  history_cache     \* the files in HISTORY_CACHE_DIR

vars == <<now, ticks, clicks, settings, usage_log, history, pc, parsed_tasks, idx,
          successful_tasks, active_model, allowed, msg, all_usage, regen_idx,
          batch_results, errors, progress, calls, script_input, button,
          batch_temp_dir, final_zip_path, disk, history_cache>>

sessionVars == <<pc, parsed_tasks, idx, successful_tasks, active_model, allowed,
                 msg, all_usage, regen_idx, batch_results, errors, progress, calls,
                 script_input, button, batch_temp_dir, final_zip_path>>

-----------------------------------------------------------------------------
(* Bounds of the model *)

MaxTicks == 1        \* clock advances per behaviour
MaxClicks == 3       \* user interactions per behaviour
MaxLines == 3        \* lines of a script given to the parser alone

(* Constants of the program *)

MINUTE_WINDOW == 60
DAY_WINDOW == 86400
DEFAULT_PER_MINUTE == 10
DEFAULT_PER_DAY == 50
FIELDS == 3

DEFAULT_MODEL == "gemini-2.5-pro-preview-tts"
OTHER_MODEL == "gemini-flash-tts"
FALLBACK_MODEL == "gemini-2.5-pro-tts"
None == "None"

-----------------------------------------------------------------------------
(* Python helpers *)

Range(s) == {s[i] : i \in 1..Len(s)}

\* dict.get(key, default)
Get(d, k, default) == IF k \in DOMAIN d THEN d[k] ELSE default

\* d[k] = v on a dict
Put(d, k, v) == [x \in DOMAIN d \cup {k} |-> IF x = k THEN v ELSE d[x]]

EmptyDict == [x \in {} |-> <<>>]

IsSpace(c) == c = " "

\* str.lstrip / str.rstrip / str.strip
RECURSIVE LStrip(_)
LStrip(s) == IF s # <<>> /\ IsSpace(Head(s)) THEN LStrip(Tail(s)) ELSE s

RECURSIVE RStrip(_)
RStrip(s) ==
  IF s # <<>> /\ IsSpace(s[Len(s)]) THEN RStrip(SubSeq(s, 1, Len(s) - 1)) ELSE s

Strip(s) == RStrip(LStrip(s))

\* str.split(sep)
RECURSIVE SplitOn(_, _)
SplitOn(s, sep) ==
  IF \E i \in 1..Len(s) : s[i] = sep
  THEN LET i == CHOOSE k \in 1..Len(s) :
                  s[k] = sep /\ \A j \in 1..(k - 1) : s[j] # sep
       IN  <<SubSeq(s, 1, i - 1)>> \o SplitOn(SubSeq(s, i + 1, Len(s)), sep)
  ELSE <<s>>


-----------------------------------------------------------------------------
(* DataManager: the settings the limiter and the orchestrator read *)

\* DataManager.get_api_key
GetApiKey(st) == st.api_key

\* DataManager.get_characters
GetCharacters(st) == st.characters

\* DataManager.get_active_model: the value it returns
GetActiveModel(st) ==
  IF st.active_model \notin Range(st.models) /\ st.models # <<>>
  THEN st.models[1]
  ELSE IF st.models = <<>> THEN DEFAULT_MODEL ELSE st.active_model

\* DataManager.set_active_model
SetActiveModelIn(st, m) ==
  IF m \in Range(st.models) THEN [st EXCEPT !.active_model = m] ELSE st

\* the limits add_model and delete_model give a model that has none
DefaultLimits ==
  [requests_per_minute |-> DEFAULT_PER_MINUTE, requests_per_day |-> DEFAULT_PER_DAY]

\* DataManager.add_model
AddModelIn(st, m) ==
  IF m \in Range(st.models) THEN st
  ELSE [st EXCEPT !.models = Append(@, m),
                  !.model_limits = IF m \in DOMAIN @ THEN @
                                   ELSE Put(@, m, DefaultLimits)]

\* list.remove(x): the list without the first x
RemoveFirst(l, x) ==
  LET i == CHOOSE k \in 1..Len(l) : l[k] = x /\ \A j \in 1..(k - 1) : l[j] # x
  IN  SubSeq(l, 1, i - 1) \o SubSeq(l, i + 1, Len(l))

\* del d[k] on a dict that may not hold k
Del(d, k) == [x \in DOMAIN d \ {k} |-> d[x]]

\* a plausible slip: a deleted model stays the active one
DeleteModelIn_KeepsActive(st, m) ==
  IF m \notin Range(st.models) THEN st
  ELSE [st EXCEPT !.models = RemoveFirst(@, m), !.model_limits = Del(@, m)]

\* DataManager.delete_model
DeleteModelIn(st, m) ==
  IF m \notin Range(st.models) THEN st
  ELSE LET models == RemoveFirst(st.models, m)
           model_limits == Del(st.model_limits, m)
       IN  IF st.active_model # m
           THEN [st EXCEPT !.models = models, !.model_limits = model_limits]
           ELSE IF models # <<>>
                THEN [st EXCEPT !.models = models, !.model_limits = model_limits,
                                !.active_model = models[Len(models)]]
                ELSE [st EXCEPT !.models = <<FALLBACK_MODEL>>,
                                !.active_model = FALLBACK_MODEL,
                                !.model_limits =
                                    Put(model_limits, FALLBACK_MODEL, DefaultLimits)]

\* DataManager.save_limits; m = None stands for the omitted model_name
SaveLimitsIn(st, per_minute, per_day, m) ==
  LET model_name == IF m = None THEN st.active_model ELSE m
  IN  [st EXCEPT !.model_limits =
         Put(@, model_name, [requests_per_minute |-> per_minute,
                             requests_per_day |-> per_day])]

\* DataManager.get_limits
GetLimits(st, m) ==
  LET model_limits == Get(st.model_limits, m, EmptyDict)
  IN  << Get(model_limits, "requests_per_minute", DEFAULT_PER_MINUTE),
         Get(model_limits, "requests_per_day", DEFAULT_PER_DAY) >>

-----------------------------------------------------------------------------
(* RateLimiter and the usage ledger file.  The file is absent ("none"),   *)
(* holds the old flat list of timestamps ("list") or the per-model dict.   *)

NoFile == [fmt |-> "none", list |-> <<>>, dict |-> EmptyDict]
ListFile(l) == [fmt |-> "list", list |-> l, dict |-> EmptyDict]
DictFile(d) == [fmt |-> "dict", list |-> <<>>, dict |-> d]

\* RateLimiter.load_usage
LoadUsage(file, st) ==
  CASE file.fmt = "none" -> EmptyDict
    [] file.fmt = "list" -> Put(EmptyDict, GetActiveModel(st), file.list)
    [] OTHER -> file.dict

\* RateLimiter.save_usage
SaveUsage(usage_data) == DictFile(usage_data)

\* the two list comprehensions of check_limit and get_usage_stats
LastMinute(timestamps, t0) ==
  SelectSeq(timestamps, LAMBDA t : t0 - t < MINUTE_WINDOW)

LastDay(timestamps, t0) ==
  SelectSeq(timestamps, LAMBDA t : t0 - t < DAY_WINDOW)

\* RateLimiter.get_usage_stats
GetUsageStats(m, st, file, t0) ==
  LET timestamps == Get(LoadUsage(file, st), m, <<>>)
  IN  [used_min |-> Len(LastMinute(timestamps, t0)),
       used_day |-> Len(LastDay(timestamps, t0))]

Denied(scope, m, max) == [ok |-> FALSE, scope |-> scope, model |-> m, max |-> max]
Allowed == [ok |-> TRUE, scope |-> "", model |-> "", max |-> 0]

\* a plausible slip: the day window is tested before the minute window
CheckLimit_DayFirst(m, st, file, t0) ==
  LET limits == GetLimits(st, m)
      timestamps == Get(LoadUsage(file, st), m, <<>>)
  IN  IF Len(LastDay(timestamps, t0)) >= limits[2]
      THEN Denied("day", m, limits[2])
      ELSE IF Len(LastMinute(timestamps, t0)) >= limits[1]
           THEN Denied("minute", m, limits[1])
           ELSE Allowed

\* a plausible slip: ">" where the code has ">="
CheckLimit_OffByOne(m, st, file, t0) ==
  LET limits == GetLimits(st, m)
      timestamps == Get(LoadUsage(file, st), m, <<>>)
  IN  IF Len(LastMinute(timestamps, t0)) > limits[1]
      THEN Denied("minute", m, limits[1])
      ELSE IF Len(LastDay(timestamps, t0)) > limits[2]
           THEN Denied("day", m, limits[2])
           ELSE Allowed

\* RateLimiter.check_limit: the (allowed, message) pair it returns
CheckLimit(m, st, file, t0) ==
  LET limits == GetLimits(st, m)
      timestamps == Get(LoadUsage(file, st), m, <<>>)
      last_minute == LastMinute(timestamps, t0)
      last_day == LastDay(timestamps, t0)
  IN  IF Len(last_minute) >= limits[1]
      THEN Denied("minute", m, limits[1])
      ELSE IF Len(last_day) >= limits[2]
           THEN Denied("day", m, limits[2])
           ELSE Allowed

\* a plausible slip: check_limit writes back what it loaded
FileAfterCheckLimit_Saving(m, st, file) == SaveUsage(LoadUsage(file, st))

\* RateLimiter.check_limit: the ledger file it leaves (it never saves)
FileAfterCheckLimit(m, st, file) == file

\* a plausible slip: the request is logged without the new timestamp
LogRequestOn_NoAppend(usage, m, t0) ==
  Put(usage, m, LastDay(Get(usage, m, <<>>), t0))

\* a plausible slip: the timestamps older than a day are kept
LogRequestOn_NoPrune(usage, m, t0) ==
  Put(usage, m, Append(Get(usage, m, <<>>), t0))

\* RateLimiter.log_request, from the loaded all_usage to the saved dict
LogRequestOn(usage, m, t0) ==
  LET timestamps == Append(Get(usage, m, <<>>), t0)
  IN  Put(usage, m, LastDay(timestamps, t0))

\* RateLimiter.clear_usage
ClearUsage == SaveUsage(EmptyDict)

-----------------------------------------------------------------------------
(* Files.  A temp directory is named by a number, a file in it by the base *)
(* output name and version number of "{base}_v{n}.wav"; the archive of a   *)
(* directory is its file "voiceovers_final.zip".                           *)

NoDisk == [d \in {} |-> 0]
NoArchive == [built |-> FALSE, entries |-> <<>>]
EmptyDir == [files |-> {}, zip |-> NoArchive]

\* os.path.basename of a path in a temp directory
BaseName(path) == [base |-> path.base, v |-> path.v]

\* os.path.exists on a directory and on a file in it
DirExists(dk, d) == d \in DOMAIN dk
FileExists(dk, path) ==
  DirExists(dk, path.dir) /\ BaseName(path) \in dk[path.dir].files

\* a plausible slip: the old directory is left where it is
RmTree_Keep(dk, d) == dk

\* shutil.rmtree(d, ignore_errors=True)
RmTree(dk, d) == [x \in DOMAIN dk \ {d} |-> dk[x]]

\* tempfile.mkdtemp(): a new, empty directory under a name not used before
MkDTemp(dk, d) == [x \in DOMAIN dk \cup {d} |-> IF x = d THEN EmptyDir ELSE dk[x]]

\* open(output_path, "wb") and the write, at the end of generate_speech
WriteFile(dk, path) ==
  IF DirExists(dk, path.dir)
  THEN [dk EXCEPT ![path.dir].files = @ \cup {BaseName(path)}]
  ELSE dk

-----------------------------------------------------------------------------
(* HistoryManager *)

\* os.path.join(HISTORY_CACHE_DIR, f"{timestamp_str}_{base_name}")
CachePath(t0, source) == [stamp |-> t0, base |-> BaseName(source)]

\* a plausible slip: the entry points at a file that was never copied
CacheAfterAdd_NoCopy(cache, source, copied, t0) == cache

\* HistoryManager.add_entry, the copy: what HISTORY_CACHE_DIR holds after it
CacheAfterAdd(cache, source, copied, t0) ==
  IF copied THEN cache \cup {CachePath(t0, source)} ELSE cache

\* a plausible slip: the entry is written although the copy failed
AddEntry_IgnoresCopyFailure(h, char_name, text, voice, style, source, copied, t0) ==
  << [timestamp |-> t0, char_name |-> char_name, text |-> text,
      voice |-> voice, style |-> style,
      audio_path |-> CachePath(t0, source)] >> \o h

\* a plausible slip: the new entry is put at the end of the log
AddEntry_Appends(h, char_name, text, voice, style, source, copied, t0) ==
  IF ~copied THEN h
  ELSE h \o << [timestamp |-> t0, char_name |-> char_name, text |-> text,
                voice |-> voice, style |-> style,
                audio_path |-> CachePath(t0, source)] >>

\* HistoryManager.add_entry; copied is whether shutil.copy2 succeeded
AddEntry(h, char_name, text, voice, style, source, copied, t0) ==
  IF ~copied THEN h
  ELSE << [timestamp |-> t0, char_name |-> char_name, text |-> text,
           voice |-> voice, style |-> style,
           audio_path |-> CachePath(t0, source)] >> \o h


-----------------------------------------------------------------------------
(* Parsing and validating a script: initialize_batch_generation, first half *)

\* what st.error, st.warning and st.success show
Message(kind, line, name, why) ==
  [kind |-> kind, line |-> line, name |-> name, why |-> why]

FormatError(i) == Message("format", i, <<>>, Allowed)
CharacterError(i, name) == Message("character", i, name, Allowed)

NewTask(parts, characters) ==
  [char_name |-> parts[1], text |-> parts[2], filename |-> parts[3],
   config |-> characters[parts[1]], versions |-> <<>>, selected_index |-> 0]

RECURSIVE DropLeadingBlank(_)
DropLeadingBlank(ls) ==
  IF ls # <<>> /\ Strip(Head(ls)) = <<>> THEN DropLeadingBlank(Tail(ls)) ELSE ls

RECURSIVE DropTrailingBlank(_)
DropTrailingBlank(ls) ==
  IF ls # <<>> /\ Strip(ls[Len(ls)]) = <<>>
  THEN DropTrailingBlank(SubSeq(ls, 1, Len(ls) - 1))
  ELSE ls

\* script_text.strip().split('\n'), on the lines of script_text: whitespace,
\* newlines included, goes from both ends of the text; "" splits into [""]
SplitLines(script) ==
  LET kept == DropTrailingBlank(DropLeadingBlank(script))
  IN  IF kept = <<>> THEN << <<>> >>
      ELSE [i \in 1..Len(kept) |->
              LET left == IF i = 1 THEN LStrip(kept[i]) ELSE kept[i]
              IN  IF i = Len(kept) THEN RStrip(left) ELSE left]

\* [p.strip() for p in line.split('|')]
Parts(line) ==
  LET raw == SplitOn(line, "|") IN [k \in 1..Len(raw) |-> Strip(raw[k])]

\* the line number an error cites: i+1 for enumerate's 0-based i, which is
\* the 1-based position i used here
ErrorLine(i) == i

\* the loop over enumerate(lines), from the i-th line (1-based) on
RECURSIVE ParseFrom(_, _, _)
ParseFrom(lines, i, characters) ==
  IF i > Len(lines) THEN [tasks |-> <<>>, errors |-> <<>>]
  ELSE LET rest == ParseFrom(lines, i + 1, characters)
           parts == Parts(lines[i])
       IN  IF Strip(lines[i]) = <<>> THEN rest
           ELSE IF Len(parts) # FIELDS
                THEN [rest EXCEPT !.errors = <<FormatError(ErrorLine(i))>> \o @]
           ELSE IF parts[1] \notin DOMAIN characters
                THEN [rest EXCEPT
                        !.errors = <<CharacterError(ErrorLine(i), parts[1])>> \o @]
           ELSE [rest EXCEPT !.tasks = <<NewTask(parts, characters)>> \o @]

\* lines 233-266: parsed_tasks and errors of a script
ParseScript(script, characters) == ParseFrom(SplitLines(script), 1, characters)


-----------------------------------------------------------------------------
(* The batch run of initialize_batch_generation, second half *)

\* os.path.join(temp_dir, f"{filename}_v{n}.wav")
OutputFile(temp_dir, task, n) == [dir |-> temp_dir, base |-> task.filename, v |-> n]

\* a plausible slip: a run that was stopped leaves the old results in place
EndResults_Discard(old, successful) == old

\* lines 332-336: what the run leaves in st.session_state["batch_results"]
\* (the empty list stands for an absent key: the key is only set to a
\* non-empty list)
EndResults(old, successful) == IF successful # <<>> THEN successful ELSE old

EndMessages(shown, successful) ==
  IF successful # <<>> THEN shown
  ELSE Append(shown, Message("none_generated", 0, <<>>, Allowed))

\* one more interaction of the user with the page
Click ==
  /\ clicks < MaxClicks
  /\ clicks' = clicks + 1

\* a plausible slip: generation starts although lines failed validation
Started_DespiteErrors(api_key, parsed) == api_key # ""

\* lines 229-231 and 268-271: generation starts with an API key and no error
Started(api_key, parsed) == api_key # "" /\ parsed.errors = <<>>

\* the "Generate Audio" button with the text of the script box
Submit(s, script) ==
  /\ pc[s] = "idle"
  /\ Click
  /\ LET api_key == GetApiKey(settings)
         parsed == ParseScript(script, GetCharacters(settings))
         started == Started(api_key, parsed)
         looping == started /\ parsed.tasks # <<>>
     IN  /\ errors' = [errors EXCEPT ![s] =
                IF api_key = "" THEN <<Message("api_key", 0, <<>>, Allowed)>>
                ELSE IF parsed.errors # <<>> THEN parsed.errors
                ELSE EndMessages(<<>>, parsed.tasks)]
         /\ parsed_tasks' = [parsed_tasks EXCEPT ![s] =
                IF started THEN parsed.tasks ELSE <<>>]
         /\ successful_tasks' = [successful_tasks EXCEPT ![s] = <<>>]
         /\ idx' = [idx EXCEPT ![s] = IF looping THEN 1 ELSE 0]
         /\ active_model' = [active_model EXCEPT ![s] =
                IF started THEN GetActiveModel(settings) ELSE @]
         /\ progress' = [progress EXCEPT ![s] =
                IF started THEN << <<0, 1>> >> ELSE <<>>]
         /\ pc' = [pc EXCEPT ![s] = IF looping THEN "check" ELSE "idle"]
         /\ IF started
            THEN LET old == batch_temp_dir[s]
                     temp_dir == clicks'
                     released == IF old # 0 /\ DirExists(disk, old)
                                 THEN RmTree(disk, old) ELSE disk
                 IN  /\ disk' = MkDTemp(released, temp_dir)
                     /\ batch_temp_dir' = [batch_temp_dir EXCEPT ![s] = temp_dir]
            ELSE UNCHANGED <<disk, batch_temp_dir>>
  /\ calls' = [calls EXCEPT ![s] = <<>>]
  /\ script_input' = [script_input EXCEPT ![s] = script]
  /\ button' = [button EXCEPT ![s] = "generate"]
  /\ UNCHANGED <<now, ticks, settings, usage_log, history, allowed, msg,
                 all_usage, regen_idx, batch_results, final_zip_path,
                 history_cache>>

\* lines 290-304: the rate-limit check of the task at idx; on a denial the
\* break and lines 332-336, where the function returns and its locals are gone
BatchCheck(s) ==
  /\ pc[s] = "check"
  /\ LET task == parsed_tasks[s][idx[s]]
         r == CheckLimit(active_model[s], settings, usage_log, now)
     IN  /\ allowed' = [allowed EXCEPT ![s] = r.ok]
         /\ msg' = [msg EXCEPT ![s] = r]
         /\ usage_log' = FileAfterCheckLimit(active_model[s], settings, usage_log)
         /\ IF r.ok
            THEN /\ pc' = [pc EXCEPT ![s] = "generate"]
                 /\ UNCHANGED <<errors, batch_results, parsed_tasks, idx,
                                successful_tasks>>
            ELSE /\ pc' = [pc EXCEPT ![s] = "idle"]
                 /\ idx' = [idx EXCEPT ![s] = 0]
                 /\ parsed_tasks' = [parsed_tasks EXCEPT ![s] = <<>>]
                 /\ successful_tasks' = [successful_tasks EXCEPT ![s] = <<>>]
                 /\ errors' = [errors EXCEPT ![s] =
                        EndMessages(Append(@, Message("stopped", 0, task.filename, r)),
                                    successful_tasks[s])]
                 /\ batch_results' = [batch_results EXCEPT ![s] =
                        EndResults(@, successful_tasks[s])]
  /\ UNCHANGED <<now, ticks, clicks, settings, history, active_model, all_usage,
                 regen_idx, progress, calls, script_input, button,
                 batch_temp_dir, final_zip_path, disk, history_cache>>

\* a plausible slip: the bar is moved only after a success, so here not at all
AfterAttempt_NoProgress(s, tasks2, successful2, shown2) ==
  /\ UNCHANGED progress
  /\ IF idx[s] < Len(parsed_tasks[s])
     THEN /\ idx' = [idx EXCEPT ![s] = @ + 1]
          /\ pc' = [pc EXCEPT ![s] = "check"]
          /\ parsed_tasks' = [parsed_tasks EXCEPT ![s] = tasks2]
          /\ successful_tasks' = [successful_tasks EXCEPT ![s] = successful2]
          /\ errors' = [errors EXCEPT ![s] = shown2]
          /\ UNCHANGED batch_results
     ELSE /\ pc' = [pc EXCEPT ![s] = "idle"]
          /\ idx' = [idx EXCEPT ![s] = 0]
          /\ parsed_tasks' = [parsed_tasks EXCEPT ![s] = <<>>]
          /\ successful_tasks' = [successful_tasks EXCEPT ![s] = <<>>]
          /\ errors' = [errors EXCEPT ![s] = EndMessages(shown2, successful2)]
          /\ batch_results' = [batch_results EXCEPT ![s] =
                 EndResults(@, successful2)]

\* line 330, the next iteration, and lines 332-336 after the last one, where
\* the function returns and its locals are gone
AfterAttempt(s, tasks2, successful2, shown2) ==
  /\ progress' = [progress EXCEPT ![s] =
         Append(@, <<idx[s], Len(parsed_tasks[s])>>)]
  /\ IF idx[s] < Len(parsed_tasks[s])
     THEN /\ idx' = [idx EXCEPT ![s] = @ + 1]
          /\ pc' = [pc EXCEPT ![s] = "check"]
          /\ parsed_tasks' = [parsed_tasks EXCEPT ![s] = tasks2]
          /\ successful_tasks' = [successful_tasks EXCEPT ![s] = successful2]
          /\ errors' = [errors EXCEPT ![s] = shown2]
          /\ UNCHANGED batch_results
     ELSE /\ pc' = [pc EXCEPT ![s] = "idle"]
          /\ idx' = [idx EXCEPT ![s] = 0]
          /\ parsed_tasks' = [parsed_tasks EXCEPT ![s] = <<>>]
          /\ successful_tasks' = [successful_tasks EXCEPT ![s] = <<>>]
          /\ errors' = [errors EXCEPT ![s] = EndMessages(shown2, successful2)]
          /\ batch_results' = [batch_results EXCEPT ![s] =
                 EndResults(@, successful2)]

\* a plausible slip: the success branch is taken whatever was returned
Succeeded_Always(outcome) == TRUE

\* "if success:" on what generate_speech returned (lines 320 and 448)
Succeeded(outcome) == outcome = "ok"

\* one call of generate_speech as the session made it: the position of the
\* task, the model_name passed, what came back, and whether the copy into
\* the history cache that follows a success worked
Attempt(i, m, outcome, copied) ==
  [task |-> i, model |-> m, outcome |-> outcome,
   cached |-> outcome # "raise" /\ Succeeded(outcome) /\ copied]

\* lines 320-324 and 330: the success branch, with the all_usage that
\* log_request loaded, the model it is given and whether the cache copy worked
BatchSucceed(s, usage, m, copied) ==
  LET task == parsed_tasks[s][idx[s]]
      output_file == OutputFile(batch_temp_dir[s], task, 1)
      done == [task EXCEPT !.versions = Append(@, output_file)]
  IN  /\ usage_log' = SaveUsage(LogRequestOn(usage, m, now))
      /\ history' = AddEntry(history, task.char_name, task.text,
                             task.config.voice, task.config.style,
                             output_file, copied, now)
      /\ history_cache' = CacheAfterAdd(history_cache, output_file, copied, now)
      /\ AfterAttempt(s, [parsed_tasks[s] EXCEPT ![idx[s]] = done],
                      Append(successful_tasks[s], done), errors[s])

\* a plausible slip: the task of a failed call joins the successful ones
BatchFail_CountsAsDone(s, kind) ==
  LET task == parsed_tasks[s][idx[s]]
  IN  /\ UNCHANGED <<usage_log, history, history_cache>>
      /\ AfterAttempt(s, parsed_tasks[s], Append(successful_tasks[s], task),
                      Append(errors[s], Message(kind, 0, task.filename, Allowed)))

\* a plausible slip: a failed call ends the run like a denial does
BatchFail_Abort(s, kind) ==
  LET task == parsed_tasks[s][idx[s]]
  IN  /\ UNCHANGED <<usage_log, history, history_cache, progress>>
      /\ pc' = [pc EXCEPT ![s] = "idle"]
      /\ idx' = [idx EXCEPT ![s] = 0]
      /\ parsed_tasks' = [parsed_tasks EXCEPT ![s] = <<>>]
      /\ successful_tasks' = [successful_tasks EXCEPT ![s] = <<>>]
      /\ errors' = [errors EXCEPT ![s] =
             EndMessages(Append(@, Message(kind, 0, task.filename, Allowed)),
                         successful_tasks[s])]
      /\ batch_results' = [batch_results EXCEPT ![s] =
             EndResults(@, successful_tasks[s])]

\* lines 325-330: generate_speech returned False ("failed") or raised ("error")
BatchFail(s, kind) ==
  LET task == parsed_tasks[s][idx[s]]
  IN  /\ UNCHANGED <<usage_log, history, history_cache>>
      /\ AfterAttempt(s, parsed_tasks[s], successful_tasks[s],
                      Append(errors[s], Message(kind, 0, task.filename, Allowed)))

Outcomes == {"ok", "fail", "raise"}

\* lines 306-330 in one session: the model is read again, generate_speech is
\* called and its result handled
BatchGenerate(s, outcome, copied) ==
  /\ pc[s] = "generate"
  /\ LET m == GetActiveModel(settings)
     IN  /\ active_model' = [active_model EXCEPT ![s] = m]
         /\ calls' = [calls EXCEPT ![s] =
                Append(@, Attempt(idx[s], m, outcome, copied))]
         /\ CASE outcome = "raise" -> BatchFail(s, "error")
              [] outcome # "raise" /\ Succeeded(outcome) ->
                   BatchSucceed(s, LoadUsage(usage_log, settings), m, copied)
              [] OTHER -> BatchFail(s, "failed")
  /\ disk' = IF outcome = "ok"
             THEN WriteFile(disk, OutputFile(batch_temp_dir[s],
                                             parsed_tasks[s][idx[s]], 1))
             ELSE disk
  /\ UNCHANGED <<now, ticks, clicks, settings, allowed, msg, all_usage, regen_idx,
                 script_input, button, batch_temp_dir, final_zip_path>>


-----------------------------------------------------------------------------
(* Two sessions on the same files: between the load and the save of        *)
(* log_request another session may run, so the two are steps of their own  *)

\* lines 306-321 up to the load_usage of log_request (managers.py line 77)
BatchCall(s, outcome) ==
  /\ pc[s] = "generate"
  /\ LET m == GetActiveModel(settings)
     IN  /\ active_model' = [active_model EXCEPT ![s] = m]
         /\ calls' = [calls EXCEPT ![s] =
                Append(@, Attempt(idx[s], m, outcome, FALSE))]
         /\ CASE outcome = "raise" ->
                   BatchFail(s, "error") /\ UNCHANGED all_usage
              [] outcome # "raise" /\ Succeeded(outcome) ->
                   /\ pc' = [pc EXCEPT ![s] = "log"]
                   /\ all_usage' = [all_usage EXCEPT ![s] =
                          LoadUsage(usage_log, settings)]
                   /\ UNCHANGED <<usage_log, history, history_cache,
                                  parsed_tasks, idx, successful_tasks,
                                  progress, errors, batch_results>>
              [] OTHER -> BatchFail(s, "failed") /\ UNCHANGED all_usage
  /\ disk' = IF outcome = "ok"
             THEN WriteFile(disk, OutputFile(batch_temp_dir[s],
                                             parsed_tasks[s][idx[s]], 1))
             ELSE disk
  /\ UNCHANGED <<now, ticks, clicks, settings, allowed, msg, regen_idx, script_input,
                 button, batch_temp_dir, final_zip_path>>

\* managers.py lines 78-89, then app.py lines 322-330
BatchLog(s, copied) ==
  /\ pc[s] = "log"
  /\ BatchSucceed(s, all_usage[s], active_model[s], copied)
  /\ calls' = [calls EXCEPT ![s][Len(calls[s])].cached = copied]
  /\ UNCHANGED <<now, ticks, clicks, settings, active_model, allowed, msg, all_usage,
                 regen_idx, script_input, button, batch_temp_dir, final_zip_path,
                 disk>>

-----------------------------------------------------------------------------
(* Review: regenerate_task_audio *)

\* the "Regenerate" button of the i-th task: lines 415-428
RegenCheck(s, i) ==
  /\ pc[s] = "idle"
  /\ Click
  /\ i \in 1..Len(batch_results[s])
  /\ LET api_key == GetApiKey(settings)
         m == GetActiveModel(settings)
         r == CheckLimit(m, settings, usage_log, now)
     IN  IF api_key = "" \/ batch_temp_dir[s] = 0
         THEN /\ errors' = [errors EXCEPT ![s] =
                     <<Message("missing", 0, <<>>, Allowed)>>]
              /\ UNCHANGED <<pc, regen_idx, active_model, allowed, msg, usage_log>>
         ELSE /\ active_model' = [active_model EXCEPT ![s] = m]
              /\ allowed' = [allowed EXCEPT ![s] = r.ok]
              /\ msg' = [msg EXCEPT ![s] = r]
              /\ usage_log' = FileAfterCheckLimit(m, settings, usage_log)
              /\ IF r.ok
                 THEN /\ pc' = [pc EXCEPT ![s] = "regen"]
                      /\ regen_idx' = [regen_idx EXCEPT ![s] = i]
                      /\ errors' = [errors EXCEPT ![s] = <<>>]
                 ELSE /\ errors' = [errors EXCEPT ![s] =
                             <<Message("cannot_regenerate", 0, <<>>, r)>>]
                      /\ UNCHANGED <<pc, regen_idx>>
  /\ calls' = [calls EXCEPT ![s] = <<>>]
  /\ progress' = [progress EXCEPT ![s] = <<>>]
  /\ button' = [button EXCEPT ![s] = "regenerate"]
  /\ UNCHANGED <<now, ticks, settings, history, parsed_tasks, idx,
                 successful_tasks, all_usage, batch_results, script_input,
                 batch_temp_dir, final_zip_path, disk, history_cache>>

\* a plausible slip: the count of versions is taken for the newest index
NewestIndex_Count(versions) == Len(versions)

\* line 452: len(task["versions"]) - 1
NewestIndex(versions) == Len(versions) - 1

\* a plausible slip: the new path is put in the list before the call and
\* stays there when the call fails
RegenTask_PathKept(task, output_file, success) ==
  [task EXCEPT !.versions = Append(@, output_file),
               !.selected_index = IF success THEN Len(task.versions) ELSE @]

\* a plausible slip: the new version takes the place of the old ones
RegenTask_Replaces(task, output_file, success) ==
  IF success
  THEN [task EXCEPT !.versions = <<output_file>>, !.selected_index = 0]
  ELSE task

\* lines 448-452 and 455-458: the task after the attempt; only the success
\* branch touches it
RegenTask(task, output_file, success) ==
  IF success
  THEN [task EXCEPT !.versions = Append(@, output_file),
                    !.selected_index = NewestIndex(Append(task.versions, output_file))]
  ELSE task

\* lines 430-458: the call and what follows it
RegenGenerate(s, outcome, copied) ==
  /\ pc[s] = "regen"
  /\ LET i == regen_idx[s]
         task == batch_results[s][i]
         m == active_model[s]
         version_count == Len(task.versions) + 1
         output_file == OutputFile(batch_temp_dir[s], task, version_count)
         success == outcome # "raise" /\ Succeeded(outcome)
     IN  /\ calls' = [calls EXCEPT ![s] =
                Append(@, Attempt(i, m, outcome, copied))]
         /\ batch_results' = [batch_results EXCEPT ![s][i] =
                RegenTask(task, output_file, success)]
         /\ IF success
            THEN /\ usage_log' = SaveUsage(LogRequestOn(
                                     LoadUsage(usage_log, settings), m, now))
                 /\ history' = AddEntry(history, task.char_name, task.text,
                                        task.config.voice, task.config.style,
                                        output_file, copied, now)
                 /\ history_cache' = CacheAfterAdd(history_cache, output_file,
                                                   copied, now)
                 /\ errors' = [errors EXCEPT ![s] =
                        <<Message("regenerated", 0, task.filename, Allowed)>>]
            ELSE /\ errors' = [errors EXCEPT ![s] =
                        <<Message(IF outcome = "raise" THEN "error" ELSE "failed",
                                  0, task.filename, Allowed)>>]
                 /\ UNCHANGED <<usage_log, history, history_cache>>
         /\ disk' = IF outcome = "ok" THEN WriteFile(disk, output_file) ELSE disk
  /\ pc' = [pc EXCEPT ![s] = "idle"]
  /\ regen_idx' = [regen_idx EXCEPT ![s] = 0]
  /\ UNCHANGED <<now, ticks, clicks, settings, parsed_tasks, idx, successful_tasks,
                 active_model, allowed, msg, all_usage, progress, script_input,
                 button, batch_temp_dir, final_zip_path>>

-----------------------------------------------------------------------------
(* Review: version selection, the archive and "Start New Batch" *)

\* what a new script run shows before any handler reports: nothing
FreshRun(s, widget) ==
  /\ button' = [button EXCEPT ![s] = widget]
  /\ errors' = [errors EXCEPT ![s] = <<>>]
  /\ calls' = [calls EXCEPT ![s] = <<>>]
  /\ progress' = [progress EXCEPT ![s] = <<>>]

\* the "Select Version" radio of the i-th task (shown when it has more than
\* one version), set to option v (0-based): render_batch_review lines 364-379
SelectVersion(s, i, v) ==
  /\ pc[s] = "idle"
  /\ Click
  /\ i \in 1..Len(batch_results[s])
  /\ Len(batch_results[s][i].versions) > 1
  /\ v \in 0..(Len(batch_results[s][i].versions) - 1)
  /\ v # batch_results[s][i].selected_index
  /\ batch_results' = [batch_results EXCEPT ![s][i].selected_index = v]
  /\ FreshRun(s, "select")
  /\ UNCHANGED <<now, ticks, settings, usage_log, history, pc, parsed_tasks, idx,
                 successful_tasks, active_model, allowed, msg, all_usage,
                 regen_idx, script_input, batch_temp_dir, final_zip_path, disk,
                 history_cache>>

\* task["versions"][task["selected_index"]] raises IndexError outside the list
IndexOk(task) == task.selected_index \in 0..(Len(task.versions) - 1)

SelectedFile(task) == task.versions[task.selected_index + 1]

\* zipf.write(selected_file, arcname=f"{task['filename']}.wav")
ZipEntry(task) == [arcname |-> task.filename, file |-> SelectedFile(task)]

\* lines 468-475: the loop over results from the k-th task on; the entries
\* written, and whether the loop was left by an exception
RECURSIVE ZipFrom(_, _, _)
ZipFrom(results, k, dk) ==
  IF k > Len(results) THEN [entries |-> <<>>, raised |-> FALSE]
  ELSE IF ~IndexOk(results[k]) THEN [entries |-> <<>>, raised |-> TRUE]
  ELSE LET rest == ZipFrom(results, k + 1, dk)
           mine == IF FileExists(dk, SelectedFile(results[k]))
                   THEN <<ZipEntry(results[k])>> ELSE <<>>
       IN  [rest EXCEPT !.entries = mine \o @]

\* create_final_zip: the path returned (0 for None; the archive is named by
\* its directory), the disk afterwards and the error shown ("" for none)
CreateFinalZip(results, temp_dir, dk) ==
  IF temp_dir = 0 \/ ~DirExists(dk, temp_dir)
  THEN [zip_path |-> 0, disk |-> dk, error |-> "temp_missing"]
  ELSE LET z == ZipFrom(results, 1, dk)
           written == [dk EXCEPT ![temp_dir].zip =
                         [built |-> TRUE, entries |-> z.entries]]
       IN  IF z.raised
           THEN [zip_path |-> 0, disk |-> written, error |-> "zip_error"]
           ELSE [zip_path |-> temp_dir, disk |-> written, error |-> ""]

\* a plausible slip: whatever create_final_zip returned is stored
StoredZipPath_Always(old, zip_path) == zip_path

\* lines 400-401: "if zip_path:" before the path is put in the session state
StoredZipPath(old, zip_path) == IF zip_path # 0 THEN zip_path ELSE old

\* the "Prepare Download" button: render_batch_review lines 398-402
PrepareDownload(s) ==
  /\ pc[s] = "idle"
  /\ Click
  /\ batch_results[s] # <<>>
  /\ LET r == CreateFinalZip(batch_results[s], batch_temp_dir[s], disk)
     IN  /\ disk' = r.disk
         /\ final_zip_path' = [final_zip_path EXCEPT ![s] =
                StoredZipPath(@, r.zip_path)]
         /\ errors' = [errors EXCEPT ![s] =
                IF r.error = "" THEN <<>>
                ELSE <<Message(r.error, 0, <<>>, Allowed)>>]
  /\ button' = [button EXCEPT ![s] = "download"]
  /\ calls' = [calls EXCEPT ![s] = <<>>]
  /\ progress' = [progress EXCEPT ![s] = <<>>]
  /\ UNCHANGED <<now, ticks, settings, usage_log, history, pc, parsed_tasks, idx,
                 successful_tasks, active_model, allowed, msg, all_usage,
                 regen_idx, batch_results, script_input, batch_temp_dir,
                 history_cache>>

\* the "Start New Batch" button: render_batch_review lines 342-349
StartNewBatch(s) ==
  /\ pc[s] = "idle"
  /\ Click
  /\ batch_results[s] # <<>>
  /\ LET old == batch_temp_dir[s]
     IN  disk' = IF old # 0 /\ DirExists(disk, old) THEN RmTree(disk, old) ELSE disk
  /\ batch_results' = [batch_results EXCEPT ![s] = <<>>]
  /\ batch_temp_dir' = [batch_temp_dir EXCEPT ![s] = 0]
  /\ FreshRun(s, "new_batch")
  /\ UNCHANGED <<now, ticks, settings, usage_log, history, pc, parsed_tasks, idx,
                 successful_tasks, active_model, allowed, msg, all_usage,
                 regen_idx, script_input, final_zip_path, history_cache>>

-----------------------------------------------------------------------------
(* The sidebar, the history view and the clock *)

\* the model selectbox: app.py lines 57-59
SetActiveModel(s, m) ==
  /\ pc[s] = "idle"
  /\ Click
  /\ m \in Range(settings.models)
  /\ m # GetActiveModel(settings)
  /\ settings' = SetActiveModelIn(settings, m)
  /\ FreshRun(s, "model")
  /\ UNCHANGED <<now, ticks, usage_log, history, pc, parsed_tasks, idx,
                 successful_tasks, active_model, allowed, msg, all_usage,
                 regen_idx, batch_results, script_input, batch_temp_dir,
                 final_zip_path, disk, history_cache>>

\* a plausible slip: the history is cleared and the usage ledger is kept
ClearHistory_KeepsUsage(s) ==
  /\ pc[s] = "idle"
  /\ Click
  /\ history' = <<>>
  /\ history_cache' = {}
  /\ FreshRun(s, "clear")
  /\ UNCHANGED <<now, ticks, settings, usage_log, pc, parsed_tasks, idx,
                 successful_tasks, active_model, allowed, msg, all_usage,
                 regen_idx, batch_results, script_input, batch_temp_dir,
                 final_zip_path, disk>>

\* the "Clear History" button: HistoryManager.clear_history
ClearHistory(s) ==
  /\ pc[s] = "idle"
  /\ Click
  /\ history' = <<>>
  /\ history_cache' = {}
  /\ usage_log' = ClearUsage
  /\ FreshRun(s, "clear")
  /\ UNCHANGED <<now, ticks, settings, pc, parsed_tasks, idx, successful_tasks,
                 active_model, allowed, msg, all_usage, regen_idx,
                 batch_results, script_input, batch_temp_dir, final_zip_path,
                 disk>>

TickSteps == {MINUTE_WINDOW, DAY_WINDOW}

\* time passes
Tick(d) ==
  /\ ticks < MaxTicks
  /\ now' = now + d
  /\ ticks' = ticks + 1
  /\ UNCHANGED <<clicks, settings, usage_log, history, sessionVars, disk,
                 history_cache>>


-----------------------------------------------------------------------------
(* Inputs *)

LineOk1 == <<"H", "|", "a", "|", "f">>
LineOk2 == <<" ", "H", " ", "|", "b", " ", "|", " ", "g", " ">>
LineShort == <<"H", "|", "a">>
LineLong == <<"H", "|", "a", "|", "f", "|", "x">>
LineUnknown == <<"G", "|", "a", "|", "f">>
LineBlank == <<" ">>
LineEmpty == <<>>

ParserLines ==
  {LineOk1, LineOk2, LineShort, LineLong, LineUnknown, LineBlank, LineEmpty}

\* the scripts a session submits: the empty text, one, two and three valid
\* lines (a blank line between them, a base name used twice), and texts with
\* one and with two failing lines
RunScripts ==
  { <<LineEmpty>>,
    <<LineOk1>>,
    <<LineOk1, LineOk2>>,
    <<LineOk2, LineBlank, LineOk1, LineOk1>>,
    <<LineShort>>,
    <<LineOk1, LineShort, LineUnknown>> }

MaxTasks == 3

\* the texts of at most n lines over the given lines
Scripts(lines, n) == UNION {[1..k -> lines] : k \in 1..n}

Characters == [n \in {<<"H">>} |-> [voice |-> "Puck", style |-> ""]]

Models == <<DEFAULT_MODEL, OTHER_MODEL>>

Limits(per_minute, per_day) ==
  [requests_per_minute |-> per_minute, requests_per_day |-> per_day]

LimitPairs == {Limits(1, 2), Limits(2, 1)}

SettingsWith(api_key, active, limits) ==
  [api_key |-> api_key, characters |-> Characters, models |-> Models,
   active_model |-> active,
   model_limits |-> (DEFAULT_MODEL :> limits) @@ (OTHER_MODEL :> Limits(1, 1))]

\* ledgers within the limits at time 0: no file yet, or the old flat list
\* holding one request just made
StartLedgers == {NoFile, ListFile(<<0>>)}

InitSessions(S) ==
  /\ pc = [s \in S |-> "idle"]
  /\ parsed_tasks = [s \in S |-> <<>>]
  /\ idx = [s \in S |-> 0]
  /\ successful_tasks = [s \in S |-> <<>>]
  /\ active_model = [s \in S |-> DEFAULT_MODEL]
  /\ allowed = [s \in S |-> TRUE]
  /\ msg = [s \in S |-> Allowed]
  /\ all_usage = [s \in S |-> EmptyDict]
  /\ regen_idx = [s \in S |-> 0]
  /\ batch_results = [s \in S |-> <<>>]
  /\ errors = [s \in S |-> <<>>]
  /\ progress = [s \in S |-> <<>>]
  /\ calls = [s \in S |-> <<>>]
  /\ script_input = [s \in S |-> <<LineEmpty>>]
  /\ button = [s \in S |-> "none"]
  /\ batch_temp_dir = [s \in S |-> 0]
  /\ final_zip_path = [s \in S |-> 0]

-----------------------------------------------------------------------------
(* One session: the application as its single user drives it *)

Init ==
  /\ now = 0
  /\ ticks = 0
  /\ clicks = 0
  /\ settings \in {SettingsWith(k, DEFAULT_MODEL, l) :
                     k \in {"", "key"}, l \in LimitPairs}
  /\ usage_log \in StartLedgers
  /\ history = <<>>
  /\ history_cache = {}
  /\ disk = NoDisk
  /\ InitSessions({1})

Next ==
  \/ \E script \in RunScripts : Submit(1, script)
  \/ BatchCheck(1)
  \/ \E outcome \in Outcomes, copied \in BOOLEAN : BatchGenerate(1, outcome, copied)
  \/ \E i \in 1..MaxTasks : RegenCheck(1, i)
  \/ \E outcome \in Outcomes, copied \in BOOLEAN : RegenGenerate(1, outcome, copied)
  \/ \E i \in 1..MaxTasks, v \in 0..MaxClicks : SelectVersion(1, i, v)
  \/ PrepareDownload(1)
  \/ StartNewBatch(1)
  \/ \E m \in Range(Models) : SetActiveModel(1, m)
  \/ ClearHistory(1)
  \/ \E d \in TickSteps : Tick(d)

Spec == Init /\ [][Next]_vars


-----------------------------------------------------------------------------
(* The parser alone: every text of at most MaxLines lines is submitted once *)

InitParse ==
  /\ now = 0
  /\ ticks = 0
  /\ clicks = 0
  /\ settings = SettingsWith("key", DEFAULT_MODEL, Limits(1, 2))
  /\ usage_log = NoFile
  /\ history = <<>>
  /\ history_cache = {}
  /\ disk = NoDisk
  /\ InitSessions({1})

NextParse ==
  /\ clicks = 0
  /\ \E script \in Scripts(ParserLines, MaxLines) : Submit(1, script)

SpecParse == InitParse /\ [][NextParse]_vars

-----------------------------------------------------------------------------
(* The limiter alone: check_limit on every ledger file, limit pair and model *)

MaxStamps == 2       \* timestamps of a model in a ledger given to the limiter

StudyNow == DAY_WINDOW + DAY_WINDOW

\* 25 hours ago, the two edges of the day window, the two edges of the minute
\* window, and now
StudyStamps ==
  {StudyNow - DAY_WINDOW - 3600, StudyNow - DAY_WINDOW, StudyNow - DAY_WINDOW + 1,
   StudyNow - MINUTE_WINDOW, StudyNow - MINUTE_WINDOW + 1, StudyNow}

\* timestamps as log_request appends them: in the order of the clock
StampLists(n) ==
  {q \in UNION {[1..k -> StudyStamps] : k \in 0..n} :
     \A i \in 1..Len(q), j \in 1..Len(q) : i < j => q[i] <= q[j]}

\* enough requests to reach the default limits
FullMinute == [i \in 1..DEFAULT_PER_MINUTE |-> StudyNow]
FullDay == [i \in 1..DEFAULT_PER_DAY |-> StudyNow - MINUTE_WINDOW]

StudyLedgers ==
  {NoFile, ListFile(FullMinute), DictFile(DEFAULT_MODEL :> FullDay)}
  \cup {ListFile(q) : q \in StampLists(MaxStamps)}
  \cup {DictFile(DEFAULT_MODEL :> q) : q \in StampLists(MaxStamps)}
  \cup {DictFile((DEFAULT_MODEL :> q) @@ (OTHER_MODEL :> <<StudyNow>>)) :
          q \in StampLists(MaxStamps)}

StudySettings ==
  {SettingsWith("key", a, Limits(i, j)) :
     a \in Range(Models), i \in 1..2, j \in 1..2}
  \cup {[SettingsWith("key", a, Limits(1, 1)) EXCEPT
           !.model_limits = (OTHER_MODEL :> Limits(1, 1))] : a \in Range(Models)}

\* a call of RateLimiter.check_limit(model_name) by itself
CheckOnly(s) ==
  /\ pc[s] = "idle"
  /\ LET r == CheckLimit(active_model[s], settings, usage_log, now)
     IN  /\ allowed' = [allowed EXCEPT ![s] = r.ok]
         /\ msg' = [msg EXCEPT ![s] = r]
  /\ usage_log' = FileAfterCheckLimit(active_model[s], settings, usage_log)
  /\ pc' = [pc EXCEPT ![s] = "checked"]
  /\ UNCHANGED <<now, ticks, clicks, settings, history, parsed_tasks, idx,
                 successful_tasks, active_model, all_usage, regen_idx,
                 batch_results, errors, progress, calls, script_input, button,
                 batch_temp_dir, final_zip_path, disk, history_cache>>

InitLimiter ==
  /\ now = StudyNow
  /\ ticks = 0
  /\ clicks = 0
  /\ settings \in StudySettings
  /\ usage_log \in StudyLedgers
  /\ history = <<>>
  /\ pc = [s \in {1} |-> "idle"]
  /\ parsed_tasks = [s \in {1} |-> <<>>]
  /\ idx = [s \in {1} |-> 0]
  /\ successful_tasks = [s \in {1} |-> <<>>]
  /\ active_model \in [{1} -> Range(Models)]
  /\ allowed = [s \in {1} |-> TRUE]
  /\ msg = [s \in {1} |-> Allowed]
  /\ all_usage = [s \in {1} |-> EmptyDict]
  /\ regen_idx = [s \in {1} |-> 0]
  /\ batch_results = [s \in {1} |-> <<>>]
  /\ errors = [s \in {1} |-> <<>>]
  /\ progress = [s \in {1} |-> <<>>]
  /\ calls = [s \in {1} |-> <<>>]
  /\ script_input = [s \in {1} |-> <<LineEmpty>>]
  /\ button = [s \in {1} |-> "none"]
  /\ batch_temp_dir = [s \in {1} |-> 0]
  /\ final_zip_path = [s \in {1} |-> 0]
  /\ disk = NoDisk
  /\ history_cache = {}

NextLimiter == CheckOnly(1)

SpecLimiter == InitLimiter /\ [][NextLimiter]_vars

-----------------------------------------------------------------------------
(* A batch run in one session while another session uses the sidebar: the  *)
(* settings file is shared, so the model selectbox of the second session   *)
(* changes what get_active_model returns in the first                      *)

SwitchScripts == { <<LineOk1>>, <<LineOk1, LineOk2>> }

InitSwitch ==
  /\ now = 0
  /\ ticks = 0
  /\ clicks = 0
  /\ settings \in {SettingsWith("key", a, l) : a \in Range(Models), l \in LimitPairs}
  /\ usage_log = NoFile
  /\ history = <<>>
  /\ history_cache = {}
  /\ disk = NoDisk
  /\ InitSessions({1, 2})

NextSwitch ==
  \/ \E script \in SwitchScripts : Submit(1, script)
  \/ BatchCheck(1)
  \/ \E outcome \in Outcomes, copied \in BOOLEAN : BatchGenerate(1, outcome, copied)
  \/ \E m \in Range(Models) : SetActiveModel(2, m)
  \/ \E d \in TickSteps : Tick(d)

SpecSwitch == InitSwitch /\ [][NextSwitch]_vars

-----------------------------------------------------------------------------
(* The settings alone: the model list, the active model and the limits as  *)
(* add_model, delete_model, set_active_model and save_limits leave them,   *)
(* called in any order with any of three model names                       *)

ModelNames == {DEFAULT_MODEL, OTHER_MODEL, FALLBACK_MODEL}

\* DEFAULT_SETTINGS
DefaultSettings ==
  [api_key |-> "", characters |-> EmptyDict, models |-> <<DEFAULT_MODEL>>,
   active_model |-> DEFAULT_MODEL,
   model_limits |-> (DEFAULT_MODEL :> DefaultLimits)]

\* calls of the DataManager setters by themselves: only settings.json changes
AddModel(m) ==
  /\ settings' = AddModelIn(settings, m)
  /\ UNCHANGED <<now, ticks, clicks, usage_log, history, sessionVars, disk,
                 history_cache>>

DeleteModel(m) ==
  /\ settings' = DeleteModelIn(settings, m)
  /\ UNCHANGED <<now, ticks, clicks, usage_log, history, sessionVars, disk,
                 history_cache>>

SetActiveOnly(m) ==
  /\ settings' = SetActiveModelIn(settings, m)
  /\ UNCHANGED <<now, ticks, clicks, usage_log, history, sessionVars, disk,
                 history_cache>>

SaveLimits(per_minute, per_day, m) ==
  /\ settings' = SaveLimitsIn(settings, per_minute, per_day, m)
  /\ UNCHANGED <<now, ticks, clicks, usage_log, history, sessionVars, disk,
                 history_cache>>

InitSettings ==
  /\ now = 0
  /\ ticks = 0
  /\ clicks = 0
  /\ settings = DefaultSettings
  /\ usage_log = NoFile
  /\ history = <<>>
  /\ history_cache = {}
  /\ disk = NoDisk
  /\ InitSessions({1})

NextSettings ==
  \/ \E m \in ModelNames : AddModel(m)
  \/ \E m \in ModelNames : DeleteModel(m)
  \/ \E m \in ModelNames : SetActiveOnly(m)
  \/ \E m \in ModelNames \cup {None} : SaveLimits(1, 2, m)

SpecSettings == InitSettings /\ [][NextSettings]_vars

-----------------------------------------------------------------------------
(* The ledger alone: log_request called by itself, for either model, on    *)
(* every ledger of the limiter study, with the clock free to advance       *)

MaxLogs == 3

\* a call of RateLimiter.log_request(m) by itself
LogOnly(s, m) ==
  /\ pc[s] = "idle"
  /\ Len(calls[s]) < MaxLogs
  /\ usage_log' = SaveUsage(LogRequestOn(LoadUsage(usage_log, settings), m, now))
  /\ calls' = [calls EXCEPT ![s] = Append(@, Attempt(0, m, "ok", FALSE))]
  /\ UNCHANGED <<now, ticks, clicks, settings, history, pc, parsed_tasks, idx,
                 successful_tasks, active_model, allowed, msg, all_usage,
                 regen_idx, batch_results, errors, progress, script_input,
                 button, batch_temp_dir, final_zip_path, disk, history_cache>>

InitLedger ==
  /\ now = StudyNow
  /\ ticks = 0
  /\ clicks = 0
  /\ settings \in {SettingsWith("key", a, Limits(1, 1)) : a \in Range(Models)}
  /\ usage_log \in StudyLedgers
  /\ history = <<>>
  /\ history_cache = {}
  /\ disk = NoDisk
  /\ InitSessions({1})

NextLedger ==
  \/ \E m \in Range(Models) : LogOnly(1, m)
  \/ \E d \in TickSteps : Tick(d)

SpecLedger == InitLedger /\ [][NextLedger]_vars

-----------------------------------------------------------------------------
(* Two sessions running batches against the same ledger and history files *)

ConcScripts == { <<LineOk1>>, <<LineOk2>> }

InitConc ==
  /\ now = 0
  /\ ticks = 0
  /\ clicks = 0
  /\ settings \in {SettingsWith("key", DEFAULT_MODEL, l) : l \in LimitPairs}
  /\ usage_log = NoFile
  /\ history = <<>>
  /\ history_cache = {}
  /\ disk = NoDisk
  /\ InitSessions({1, 2})

NextConc ==
  \E s \in {1, 2} :
    \/ \E script \in ConcScripts : Submit(s, script)
    \/ BatchCheck(s)
    \/ \E outcome \in Outcomes : BatchCall(s, outcome)
    \/ \E copied \in BOOLEAN : BatchLog(s, copied)
    \/ \E d \in TickSteps : Tick(d)

SpecConc == InitConc /\ [][NextConc]_vars

-----------------------------------------------------------------------------
(* One session with limits that let a task gather versions: a script of    *)
(* one line is generated, then reviewed                                    *)

ReviewLimits == Limits(3, 3)

InitReview ==
  /\ now = 0
  /\ ticks = 0
  /\ clicks = 0
  /\ settings = SettingsWith("key", DEFAULT_MODEL, ReviewLimits)
  /\ usage_log = NoFile
  /\ history = <<>>
  /\ history_cache = {}
  /\ disk = NoDisk
  /\ InitSessions({1})

NextReview ==
  \/ Submit(1, <<LineOk1>>)
  \/ BatchCheck(1)
  \/ \E outcome \in Outcomes, copied \in BOOLEAN : BatchGenerate(1, outcome, copied)
  \/ \E i \in 1..MaxTasks : RegenCheck(1, i)
  \/ \E outcome \in Outcomes, copied \in BOOLEAN : RegenGenerate(1, outcome, copied)
  \/ \E i \in 1..MaxTasks, v \in 0..MaxClicks : SelectVersion(1, i, v)
  \/ PrepareDownload(1)
  \/ StartNewBatch(1)
  \/ \E d \in TickSteps : Tick(d)

SpecReview == InitReview /\ [][NextReview]_vars

-----------------------------------------------------------------------------
(* create_final_zip alone, on the results and the temp directory it may be *)
(* given: tasks with no version yet and with several, any selection, the   *)
(* directory present, removed, or never recorded in the session            *)

MaxVersions == 3     \* versions of a task given to the archive builder

StudyDir == 1
StaleDir == 2

\* the task of base name b with n versions in StudyDir, option sel selected
StudyTask(b, n, sel) ==
  LET task == NewTask(<< <<"H">>, <<"a">>, b >>, Characters)
  IN  [task EXCEPT !.versions = [k \in 1..n |-> OutputFile(StudyDir, task, k)],
                   !.selected_index = sel]

StudyTasks(b) ==
  {StudyTask(b, 0, 0)} \cup
  UNION {{StudyTask(b, n, sel) : sel \in 0..(n - 1)} : n \in 1..MaxVersions}

StudyResults ==
  {<<t>> : t \in StudyTasks(<<"f">>)} \cup
  {<<t, u>> : t \in StudyTasks(<<"f">>), u \in StudyTasks(<<"g">>)}

\* StudyDir holding every version file of the results
StudyDisk(results) ==
  [d \in {StudyDir} |->
     [files |-> UNION {{BaseName(results[i].versions[k]) :
                          k \in 1..Len(results[i].versions)} :
                       i \in 1..Len(results)},
      zip |-> NoArchive]]

InitZip ==
  /\ now = 0
  /\ ticks = 0
  /\ clicks = 0
  /\ settings = SettingsWith("key", DEFAULT_MODEL, Limits(1, 2))
  /\ usage_log = NoFile
  /\ history = <<>>
  /\ history_cache = {}
  /\ pc = [s \in {1} |-> "idle"]
  /\ parsed_tasks = [s \in {1} |-> <<>>]
  /\ idx = [s \in {1} |-> 0]
  /\ successful_tasks = [s \in {1} |-> <<>>]
  /\ active_model = [s \in {1} |-> DEFAULT_MODEL]
  /\ allowed = [s \in {1} |-> TRUE]
  /\ msg = [s \in {1} |-> Allowed]
  /\ all_usage = [s \in {1} |-> EmptyDict]
  /\ regen_idx = [s \in {1} |-> 0]
  /\ errors = [s \in {1} |-> <<>>]
  /\ progress = [s \in {1} |-> <<>>]
  /\ calls = [s \in {1} |-> <<>>]
  /\ script_input = [s \in {1} |-> <<LineEmpty>>]
  /\ button = [s \in {1} |-> "none"]
  /\ batch_results \in [{1} -> StudyResults]
  /\ batch_temp_dir \in [{1} -> {0, StudyDir}]
  /\ final_zip_path \in [{1} -> {0, StaleDir}]
  /\ disk \in {NoDisk, StudyDisk(batch_results[1])}

NextZip == clicks = 0 /\ PrepareDownload(1)

SpecZip == InitZip /\ [][NextZip]_vars

-----------------------------------------------------------------------------
(* Properties.  The counts below are taken from the ledger file directly,  *)
(* not through get_usage_stats or check_limit.                             *)

\* the timestamps the ledger file holds for model m
RecordedIn(file, st, m) == Get(LoadUsage(file, st), m, <<>>)
Recorded(m) == RecordedIn(usage_log, settings, m)

\* how many of the timestamps ts lie less than window seconds before t0
CountIn(ts, t0, window) == Cardinality({k \in 1..Len(ts) : t0 - ts[k] < window})

count_last_60s(m) == CountIn(Recorded(m), now, MINUTE_WINDOW)
count_last_86400s(m) == CountIn(Recorded(m), now, DAY_WINDOW)
limit_per_minute(m) == GetLimits(settings, m)[1]
limit_per_day(m) == GetLimits(settings, m)[2]

MinuteFull(m) == count_last_60s(m) >= limit_per_minute(m)
DayFull(m) == count_last_86400s(m) >= limit_per_day(m)

Sessions == DOMAIN pc

\* C1: check_limit(m) denies exactly when the count of the last 60 s has
\* reached the minute limit or the count of the last 86400 s has reached the
\* day limit; the denial is minute-scoped whenever the minute condition holds
\* (so also when both hold), day-scoped when only the day condition holds,
\* and the request is allowed otherwise.
C1_CheckLimitDecision ==
  \A s \in Sessions :
    pc[s] = "checked" =>
      LET m == active_model[s]
      IN  /\ allowed[s] = ~(MinuteFull(m) \/ DayFull(m))
          /\ msg[s].ok = allowed[s]
          /\ MinuteFull(m) => msg[s] = Denied("minute", m, limit_per_minute(m))
          /\ (~MinuteFull(m) /\ DayFull(m)) => msg[s] = Denied("day", m, limit_per_day(m))
          /\ ~(MinuteFull(m) \/ DayFull(m)) => msg[s] = Allowed

\* C1's case: both windows are full and the denial names the minute
C1_BothFullDeniedByMinute ==
  \E s \in Sessions :
    /\ pc[s] = "checked"
    /\ MinuteFull(active_model[s]) /\ DayFull(active_model[s])
    /\ ~allowed[s]
    /\ msg[s].scope = "minute"

\* C4: a call of check_limit leaves the persisted ledger file as it was,
\* whether it allows or denies, and whatever format the file has.
C4_CheckLimitReadOnly ==
  [][\A s \in Sessions :
       (pc[s] = "idle" /\ pc'[s] = "checked") => usage_log' = usage_log]_vars

\* C4's case: a denial computed from a file still in the old flat-list format
C4_DeniedOnLegacyFile ==
  \E s \in Sessions :
    /\ pc[s] = "checked"
    /\ ~allowed[s]
    /\ usage_log.fmt = "list"
    /\ usage_log.list # <<>>

\* C2: in one session, with unchanged limits and a ledger that starts
\* within them, no sequence of batch runs and regenerations ever brings the
\* count of the last 60 s above the minute limit or the count of the last
\* 86400 s above the day limit, for any model.
C2_UsageWithinLimits ==
  \A m \in Range(Models) :
    /\ count_last_60s(m) <= limit_per_minute(m)
    /\ count_last_86400s(m) <= limit_per_day(m)

\* C2's case: batch run and regeneration have both logged, and a model's
\* count has reached its ceiling exactly
C2_CeilingReached ==
  \E s \in Sessions : \E m \in Range(Models) :
    /\ \E i \in 1..Len(batch_results[s]) : Len(batch_results[s][i].versions) >= 2
    /\ limit_per_day(m) >= 2
    /\ count_last_86400s(m) = limit_per_day(m)

\* the step is a generation attempt of session s that did not succeed
FailedAttempt(s) ==
  /\ pc[s] \in {"generate", "regen"}
  /\ Len(calls'[s]) = Len(calls[s]) + 1
  /\ calls'[s][Len(calls'[s])].outcome \in {"fail", "raise"}

\* C3: an attempt, in a batch run or a regeneration, whose generation call
\* raises or returns failure leaves the ledger file exactly as it was.
C3_FailedCallConsumesNoQuota ==
  [][\A s \in Sessions : FailedAttempt(s) => usage_log' = usage_log]_vars

\* C3's case: the call of a regeneration raised, after the batch run had put
\* a timestamp in the ledger
C3_FailedAttemptsSeen ==
  \E s \in Sessions :
    /\ button[s] = "regenerate"
    /\ Len(calls[s]) = 1 /\ calls[s][1].outcome = "raise"
    /\ \E k \in 1..Len(errors[s]) : errors[s][k].kind = "error"
    /\ \E m \in Range(Models) : count_last_86400s(m) >= 1

\* C5: with two sessions on one ledger the check and the log are separate
\* steps, and the log does not look at the limit again: whenever a session
\* logs, the ledger it writes holds one timestamp more for its model than the
\* ledger it loaded, whatever the other session has written since the check
\* (so both sessions can pass the check one below the minute limit, both log,
\* and the count of the last 60 s ends above the limit).
C5_LogDoesNotRecheck ==
  [][\A s \in Sessions :
       (pc[s] = "log" /\ pc'[s] # "log") =>
         LET m == active_model[s]
         IN  count_last_60s(m)' =
               CountIn(Get(all_usage[s], m, <<>>), now, MINUTE_WINDOW) + 1]_vars

\* C5's case: both sessions were allowed and called the API successfully, and
\* the ledger holds more requests of the last 60 s than the minute limit
C5_OverLimitReached ==
  \E m \in Range(Models) :
    /\ count_last_60s(m) > limit_per_minute(m)
    /\ \A s \in Sessions :
         /\ allowed[s]
         /\ Len(calls[s]) = 1
         /\ calls[s][1].outcome = "ok" /\ calls[s][1].model = m

(* Lines of the submitted text, judged without the parser *)

NonBlank(line) == \E k \in 1..Len(line) : ~IsSpace(line[k])
FieldCount(line) == 1 + Cardinality({k \in 1..Len(line) : line[k] = "|"})
KnownCharacter(line) == Parts(line)[1] \in DOMAIN GetCharacters(settings)

Malformed(line) == NonBlank(line) /\ FieldCount(line) # FIELDS
LineFails(line) == NonBlank(line) /\ (FieldCount(line) # FIELDS \/ ~KnownCharacter(line))
LineValid(line) == NonBlank(line) /\ FieldCount(line) = FIELDS /\ KnownCharacter(line)

FailingLines(script) == {j \in 1..Len(script) : LineFails(script[j])}
ValidationErrors(shown) ==
  {k \in 1..Len(shown) : shown[k].kind \in {"format", "character"}}

\* the step is a press of "Generate Audio" in session s
Submitted(s) == pc[s] = "idle" /\ clicks' = clicks + 1 /\ button'[s] = "generate"

\* what a submission with a failing line never does: go on to a rate-limit
\* check or a generation call, or write the ledger or the history
NothingGenerated(s) ==
  /\ pc'[s] = "idle"
  /\ allowed' = allowed /\ msg' = msg
  /\ calls'[s] = <<>>
  /\ usage_log' = usage_log
  /\ history' = history

OneErrorPerFailingLine(s) ==
  /\ Len(errors'[s]) = Cardinality(FailingLines(script_input'[s]))
  /\ ValidationErrors(errors'[s]) = 1..Len(errors'[s])

\* C6 as stated: a submission with at least one failing line makes no
\* rate-limit check, no generation call, no ledger record and no history
\* entry, and reports one error for every failing line.
C6_AsStated ==
  [][\A s \in Sessions :
       (Submitted(s) /\ FailingLines(script_input'[s]) # {}) =>
         NothingGenerated(s) /\ OneErrorPerFailingLine(s)]_vars

\* C6: a submission with at least one failing line makes no rate-limit
\* check, no generation call, no ledger record and no history entry; when an
\* API key is configured it reports one error for every failing line, and
\* without a key it reports the missing key alone.
C6_ValidationBlocksGeneration ==
  [][\A s \in Sessions :
       (Submitted(s) /\ FailingLines(script_input'[s]) # {}) =>
         /\ NothingGenerated(s)
         /\ GetApiKey(settings) # "" => OneErrorPerFailingLine(s)
         /\ GetApiKey(settings) = "" =>
              errors'[s] = <<Message("api_key", 0, <<>>, Allowed)>>]_vars

\* C6's case: with a key, a script of one valid and two failing lines was
\* submitted and two errors are shown
C6_TwoErrorsShown ==
  \E s \in Sessions :
    /\ button[s] = "generate"
    /\ GetApiKey(settings) # ""
    /\ Cardinality(FailingLines(script_input[s])) = 2
    /\ \E j \in 1..Len(script_input[s]) : LineValid(script_input[s][j])
    /\ Cardinality(ValidationErrors(errors[s])) = 2
    /\ pc[s] = "idle" /\ calls[s] = <<>>

ValidLines(script) == SelectSeq(script, LineValid)

\* C7: blank lines are skipped; every non-blank line that does not split
\* into exactly 3 fields is reported with its 1-based number in the submitted
\* text, also when blank lines precede it; a script without failing lines
\* yields one task per valid line, with the trimmed name, text and base name.
C7_ErrorsCiteSubmittedLine ==
  \A s \in Sessions :
    (button[s] = "generate" /\ GetApiKey(settings) # "") =>
      LET script == script_input[s]
          valid == ValidLines(script)
      IN  /\ {errors[s][k].line : k \in {k \in 1..Len(errors[s]) :
                                           errors[s][k].kind = "format"}}
               = {j \in 1..Len(script) : Malformed(script[j])}
          /\ (pc[s] = "check" /\ idx[s] = 1) =>
               /\ Len(parsed_tasks[s]) = Len(valid)
               /\ \A k \in 1..Len(valid) :
                    /\ parsed_tasks[s][k].char_name = Parts(valid[k])[1]
                    /\ parsed_tasks[s][k].text = Parts(valid[k])[2]
                    /\ parsed_tasks[s][k].filename = Parts(valid[k])[3]
                    /\ parsed_tasks[s][k].versions = <<>>

HasVersion(task) == task.versions # <<>>

\* the tasks before position i of the running batch that have succeeded
SucceededBefore(s, i) == SelectSeq(SubSeq(parsed_tasks[s], 1, i - 1), HasVersion)

\* the step is the rate-limit check of a batch task, and it denies
DeniedAtTask(s) == pc[s] = "check" /\ pc'[s] # "check" /\ ~allowed'[s]

\* C8: when the limiter denies at task ti of a batch, the run ends there: no
\* generation call is made for ti or a later task, none of ti..tN has a
\* version or is in the successful set, and the tasks that succeeded before
\* ti are what the run leaves as its results.
C8_DenialAbortsRest ==
  [][\A s \in Sessions :
       DeniedAtTask(s) =>
         LET i == idx[s]
             kept == SucceededBefore(s, i)
         IN  /\ pc'[s] = "idle"
             /\ calls'[s] = calls[s]
             /\ \A k \in 1..Len(calls[s]) : calls[s][k].task < i
             /\ \A j \in i..Len(parsed_tasks[s]) : ~HasVersion(parsed_tasks[s][j])
             /\ successful_tasks[s] = kept
             /\ batch_results'[s] = IF kept # <<>> THEN kept ELSE batch_results[s]
             /\ errors'[s][Len(errors[s]) + 1] =
                  Message("stopped", 0, parsed_tasks[s][i].filename, msg'[s])]_vars

\* C8's case: a script of three tasks was stopped at its second task, after
\* the first had succeeded and become the run's only result
C8_StoppedAfterFirst ==
  \E s \in Sessions :
    /\ button[s] = "generate" /\ pc[s] = "idle"
    /\ Len(ValidLines(script_input[s])) = 3
    /\ \E k \in 1..Len(errors[s]) : errors[s][k].kind = "stopped"
    /\ Len(calls[s]) = 1 /\ calls[s][1].outcome = "ok"
    /\ Len(batch_results[s]) = 1

\* the step is a generation attempt of a batch task that did not succeed
FailedBatchAttempt(s) == pc[s] = "generate" /\ FailedAttempt(s)

\* C9: a generation call of batch task ti that raises or returns failure is
\* reported and does not end the run: ti keeps zero versions and stays out
\* of the successful set, and if a task follows, the run goes on to the
\* rate-limit check of t(i+1); after the last task the run ends as usual.
C9_FailureDoesNotAbort ==
  [][\A s \in Sessions :
       FailedBatchAttempt(s) =>
         LET i == idx[s]
             task == parsed_tasks[s][i]
         IN  /\ ~HasVersion(task)
             /\ errors'[s][Len(errors[s]) + 1].kind \in {"failed", "error"}
             /\ errors'[s][Len(errors[s]) + 1].name = task.filename
             /\ i < Len(parsed_tasks[s]) =>
                  /\ pc'[s] = "check" /\ idx'[s] = i + 1
                  /\ parsed_tasks'[s] = parsed_tasks[s]
                  /\ successful_tasks'[s] = successful_tasks[s]
                  /\ batch_results'[s] = batch_results[s]
             /\ i = Len(parsed_tasks[s]) =>
                  /\ pc'[s] = "idle"
                  /\ batch_results'[s] =
                       IF successful_tasks[s] # <<>> THEN successful_tasks[s]
                       ELSE batch_results[s]]_vars

\* C9's case: the call of one task failed, the call of a later task of the
\* same run succeeded, and only the later one is among the results
C9_LaterTaskAttempted ==
  \E s \in Sessions :
    /\ button[s] = "generate" /\ pc[s] = "idle"
    /\ Len(calls[s]) = 2
    /\ calls[s][1].outcome \in {"fail", "raise"}
    /\ calls[s][2].outcome = "ok" /\ calls[s][2].task > calls[s][1].task
    /\ Len(batch_results[s]) = 1

\* the step is a generation attempt of session s that succeeded
SuccessfulAttempt(s) ==
  /\ pc[s] \in {"generate", "regen"}
  /\ Len(calls'[s]) = Len(calls[s]) + 1
  /\ calls'[s][Len(calls'[s])].outcome = "ok"

\* the task a generation attempt at pc = "generate" or "regen" is about
AttemptedTask(s) ==
  IF pc[s] = "generate" THEN parsed_tasks[s][idx[s]]
  ELSE batch_results[s][regen_idx[s]]

\* the task after a successful attempt: one more version, the newest selected
WithNewVersion(s, task) ==
  [task EXCEPT !.versions = Append(@, OutputFile(batch_temp_dir[s], task, Len(@) + 1)),
               !.selected_index = Len(task.versions)]

\* what a successful attempt does to the ledger (the new timestamp goes
\* after those of the last 86400 s, older ones are dropped), the version
\* list, the selection and the successful set
SuccessRecorded(s) ==
  LET c == calls'[s][Len(calls'[s])]
      task == AttemptedTask(s)
      done == WithNewVersion(s, task)
      after == RecordedIn(usage_log', settings', c.model)
  IN  /\ after = Append(LastDay(Recorded(c.model), now), now)
      /\ CountIn(after, now', MINUTE_WINDOW) = count_last_60s(c.model) + 1
      /\ CountIn(after, now', DAY_WINDOW) = count_last_86400s(c.model) + 1
      /\ \A m \in Range(Models) \ {c.model} : Recorded(m)' = Recorded(m)
      /\ pc[s] = "regen" => batch_results'[s][regen_idx[s]] = done
      /\ pc[s] = "generate" =>
           LET successful == Append(successful_tasks[s], done)
           IN  IF idx[s] < Len(parsed_tasks[s])
               THEN /\ successful_tasks'[s] = successful
                    /\ parsed_tasks'[s][idx[s]] = done
               ELSE batch_results'[s] = successful

\* C10 as stated: every successful generation call records one timestamp
\* for the model used, adds exactly one history entry, appends one version,
\* selects the newest version and puts the task in the successful set.
C10_AsStated ==
  [][\A s \in Sessions :
       SuccessfulAttempt(s) =>
         /\ SuccessRecorded(s)
         /\ Len(history') = Len(history) + 1]_vars

\* C10: every successful generation call records one timestamp for the
\* model used, appends one version, selects the newest version and puts the
\* task in the successful set; it adds exactly one history entry, at the
\* front, when the copy into the history cache succeeds, and none when the
\* copy fails.
C10_SuccessBookkeeping ==
  [][\A s \in Sessions :
       SuccessfulAttempt(s) =>
         LET c == calls'[s][Len(calls'[s])]
             task == AttemptedTask(s)
         IN  /\ SuccessRecorded(s)
             /\ c.cached =>
                  /\ Len(history') = Len(history) + 1
                  /\ Tail(history') = history
                  /\ Head(history').text = task.text
                  /\ Head(history').char_name = task.char_name
                  /\ Head(history').timestamp = now
             /\ ~c.cached => history' = history]_vars

\* C10's case: a batch success and a regeneration success, one of them with
\* a failed cache copy: two versions, two timestamps, one history entry
C10_TwoSuccessesOneEntry ==
  \E s \in Sessions : \E m \in Range(Models) :
    /\ pc[s] = "idle" /\ button[s] = "regenerate"
    /\ Len(calls[s]) = 1 /\ calls[s][1].outcome = "ok" /\ calls[s][1].model = m
    /\ \E i \in 1..Len(batch_results[s]) :
         /\ Len(batch_results[s][i].versions) = 2
         /\ batch_results[s][i].selected_index = 1
    /\ count_last_86400s(m) = 2
    /\ Len(history) = 1

\* C11: every task in st.session_state["batch_results"] has at least one
\* version; a task with zero versions is never among the reviewable tasks.
C11_ResultsHaveVersions ==
  \A s \in Sessions :
    \A i \in 1..Len(batch_results[s]) : HasVersion(batch_results[s][i])

\* C11's case: a run of several tasks has ended, one of them failed and has
\* no version, and the results hold fewer tasks than the script had
C11_FailedTaskLeftOut ==
  \E s \in Sessions :
    /\ button[s] = "generate" /\ pc[s] = "idle"
    /\ \E k \in 1..Len(calls[s]) : calls[s][k].outcome = "fail"
    /\ batch_results[s] # <<>>
    /\ Len(batch_results[s]) < Len(ValidLines(script_input[s]))
    /\ Len(calls[s]) = Len(ValidLines(script_input[s]))

\* C12: for every task in the reviewable set the selected version index is
\* a valid index into its version list, 0 <= selected_index <= len(versions)-1,
\* whatever batch runs, selections and regenerations came before.
C12_SelectedIndexValid ==
  \A s \in Sessions :
    \A i \in 1..Len(batch_results[s]) :
      LET task == batch_results[s][i]
      IN  0 <= task.selected_index /\ task.selected_index <= Len(task.versions) - 1

\* C12's case: after a regeneration had selected the newest of two versions,
\* the user selected the first one again
C12_OlderVersionChosen ==
  \E s \in Sessions :
    /\ button[s] = "select"
    /\ \E i \in 1..Len(batch_results[s]) :
         /\ Len(batch_results[s][i].versions) = 2
         /\ batch_results[s][i].selected_index = 0

\* the step is a generation attempt of a regeneration that succeeded
SuccessfulRegeneration(s) == pc[s] = "regen" /\ SuccessfulAttempt(s)

\* C13: a successful regeneration of a task with n versions leaves it with
\* n+1 versions, the first n as they were, the new one named v(n+1) in the
\* session's temp directory, and selects index n; no other task changes.
C13_RegenerationAppends ==
  [][\A s \in Sessions :
       SuccessfulRegeneration(s) =>
         LET i == regen_idx[s]
             before == batch_results[s][i]
             after == batch_results'[s][i]
             n == Len(before.versions)
         IN  /\ Len(after.versions) = n + 1
             /\ SubSeq(after.versions, 1, n) = before.versions
             /\ after.versions[n + 1] = OutputFile(batch_temp_dir[s], before, n + 1)
             /\ after.selected_index = n
             /\ Len(batch_results'[s]) = Len(batch_results[s])
             /\ \A j \in 1..Len(batch_results[s]) :
                  j # i => batch_results'[s][j] = batch_results[s][j]]_vars

\* C13's case: one initial success and two successful regenerations: three
\* versions, index 2 selected
C13_ThreeVersions ==
  \E s \in Sessions :
    /\ button[s] = "regenerate" /\ pc[s] = "idle"
    /\ Len(batch_results[s]) = 1
    /\ Len(batch_results[s][1].versions) = 3
    /\ batch_results[s][1].selected_index = 2
    /\ \A k \in 1..3 : batch_results[s][1].versions[k].v = k

\* the step is the "Regenerate" button stopping before any call: no API key,
\* no temp directory, or a denial by the limiter
RegenerationRefused(s) ==
  /\ pc[s] = "idle" /\ clicks' = clicks + 1 /\ button'[s] = "regenerate"
  /\ pc'[s] = "idle"

\* the step is a generation attempt of a regeneration that did not succeed
FailedRegeneration(s) == pc[s] = "regen" /\ FailedAttempt(s)

\* C14: a regeneration that does not succeed - refused by the limiter, or
\* the call returns failure or raises - leaves every task's version list and
\* selected index as they were.
C14_FailedRegenerationKeepsTask ==
  [][\A s \in Sessions :
       (RegenerationRefused(s) \/ FailedRegeneration(s)) =>
         batch_results'[s] = batch_results[s]]_vars

\* C14's case: a task with two versions, then a regeneration that the
\* limiter refused
C14_RefusedWithTwoVersions ==
  \E s \in Sessions :
    /\ button[s] = "regenerate" /\ pc[s] = "idle"
    /\ ~allowed[s]
    /\ \E k \in 1..Len(errors[s]) : errors[s][k].kind = "cannot_regenerate"
    /\ \E i \in 1..Len(batch_results[s]) :
         /\ Len(batch_results[s][i].versions) = 2
         /\ batch_results[s][i].selected_index = 1

IsPrefix(a, b) == Len(a) <= Len(b) /\ SubSeq(b, 1, Len(a)) = a

\* the step puts the tasks of a batch run in the reviewable set, or is the
\* "Start New Batch" button that discards them
ResultsReplaced(s) ==
  \/ pc[s] \in {"check", "generate", "log"}
  \/ pc[s] = "idle" /\ clicks' = clicks + 1 /\ button'[s] = "new_batch"

\* C15: version lists are append-only: over every step that keeps the
\* reviewable tasks (regeneration, version selection, archive build, clear
\* history, a model change, a new submission before its results are in) each
\* task's version list before is a prefix of its list after, and so is the
\* list of every task of a running batch from one attempt to the next.
C15_VersionsAppendOnly ==
  [][\A s \in Sessions :
       /\ ~ResultsReplaced(s) =>
            /\ Len(batch_results'[s]) = Len(batch_results[s])
            /\ \A i \in 1..Len(batch_results[s]) :
                 IsPrefix(batch_results[s][i].versions,
                          batch_results'[s][i].versions)
       /\ (pc[s] \in {"check", "generate"} /\ pc'[s] \in {"check", "generate"}) =>
            /\ Len(parsed_tasks'[s]) = Len(parsed_tasks[s])
            /\ \A j \in 1..Len(parsed_tasks[s]) :
                 IsPrefix(parsed_tasks[s][j].versions,
                          parsed_tasks'[s][j].versions)]_vars

\* C15's case: a task that was regenerated and then archived still has its
\* first version at index 0 and the regenerated one after it
C15_TwoVersionsAfterBuild ==
  \E s \in Sessions :
    /\ button[s] = "download"
    /\ \E i \in 1..Len(batch_results[s]) :
         /\ Len(batch_results[s][i].versions) = 2
         /\ batch_results[s][i].versions[1].v = 1
         /\ batch_results[s][i].versions[2].v = 2

\* the step is a press of "Prepare Download" in session s
BuildRequested(s) == pc[s] = "idle" /\ clicks' = clicks + 1 /\ button'[s] = "download"

\* the archive in the session's temp directory after the step
ArchiveAfter(s) ==
  IF batch_temp_dir[s] # 0 /\ DirExists(disk', batch_temp_dir[s])
  THEN disk'[batch_temp_dir[s]].zip
  ELSE NoArchive

\* the archive has an entry named after the task holding its selected version
HasEntryFor(archive, task) ==
  \E k \in 1..Len(archive.entries) :
    /\ archive.entries[k].arcname = task.filename
    /\ archive.entries[k].file = task.versions[task.selected_index + 1]

TempPresent(s) == batch_temp_dir[s] # 0 /\ DirExists(disk, batch_temp_dir[s])

C18_MissingTempFails ==
  [][\A s \in Sessions :
       (BuildRequested(s) /\ ~TempPresent(s)) =>
         /\ errors'[s] = <<Message("temp_missing", 0, <<>>, Allowed)>>
         /\ disk' = disk
         /\ final_zip_path' = final_zip_path
         /\ batch_results' = batch_results
         /\ batch_temp_dir' = batch_temp_dir]_vars

\* C18's case: the recorded directory is gone, the session still holds the
\* path of an earlier archive, and the build has reported the failure
C18_BuildRefused ==
  \E s \in Sessions :
    /\ button[s] = "download"
    /\ batch_temp_dir[s] = StudyDir /\ ~DirExists(disk, StudyDir)
    /\ final_zip_path[s] = StaleDir
    /\ \E k \in 1..Len(errors[s]) : errors[s][k].kind = "temp_missing"

\* C19: at most one temp directory exists at any time, and it is the one the
\* session records: a validated submission and "Start New Batch" remove the
\* directory of the batch before, and a new one is made only after that.
C19_OneTempDir ==
  \A s \in Sessions :
    /\ Cardinality(DOMAIN disk) <= 1
    /\ batch_temp_dir[s] = 0 => DOMAIN disk = {}
    /\ batch_temp_dir[s] # 0 => DOMAIN disk = {batch_temp_dir[s]}

\* C19's case: a second batch has been started after a first one produced
\* files, and only the second directory is there
C19_SecondBatchStarted ==
  \E s \in Sessions :
    /\ batch_temp_dir[s] >= 2
    /\ DOMAIN disk = {batch_temp_dir[s]}
    /\ \E i \in 1..Len(batch_results[s]) :
         batch_results[s][i].versions[1].dir < batch_temp_dir[s]

\* the step is a successful generation whose cache copy failed
CopyFailed(s) ==
  SuccessfulAttempt(s) /\ ~calls'[s][Len(calls'[s])].cached

\* C20: add_entry whose copy into the cache fails leaves the history log as
\* it was and puts nothing in the cache, so every entry of the log at every
\* moment names a file that is in the cache.
C20_NoEntryWithoutCopy ==
  /\ [](\A k \in 1..Len(history) : history[k].audio_path \in history_cache)
  /\ [][\A s \in Sessions :
          CopyFailed(s) => history' = history /\ history_cache' = history_cache]_vars

\* C20's case: a generation succeeded and got its version, its copy failed,
\* and the log has no entry
C20_VersionWithoutEntry ==
  \E s \in Sessions :
    /\ Len(calls[s]) = 1
    /\ calls[s][1].outcome = "ok" /\ ~calls[s][1].cached
    /\ batch_results[s] # <<>>
    /\ history = <<>> /\ history_cache = {}

\* the step is a press of the "Clear History" button in session s
HistoryCleared(s) == pc[s] = "idle" /\ clicks' = clicks + 1 /\ button'[s] = "clear"

\* C21: the history log is newest-first and its entries are never changed:
\* at every moment the timestamps do not increase from the front to the
\* back, a successful generation whose copy worked puts its entry at index 0
\* with the entries before it following unchanged, and no other step but
\* "Clear History" changes the log.
C21_HistoryNewestFirst ==
  /\ [](\A k \in 1..Len(history) : \A j \in k..Len(history) :
          history[k].timestamp >= history[j].timestamp)
  /\ [][\A s \in Sessions :
          /\ (SuccessfulAttempt(s) /\ calls'[s][Len(calls'[s])].cached) =>
               /\ history' = <<Head(history')>> \o history
               /\ Head(history').text = AttemptedTask(s).text
               /\ Head(history').timestamp = now
          /\ (history' # history /\ ~\E t \in Sessions : HistoryCleared(t)) =>
               /\ Len(history') = Len(history) + 1
               /\ Tail(history') = history]_vars

\* C21's case: two generations succeeded one after the other, at different
\* times and for different texts, and the later one is at the front
C21_LaterEntryFirst ==
  /\ Len(history) = 2
  /\ history[1].timestamp > history[2].timestamp
  /\ history[1].text # history[2].text

\* C22: after clear_history the history log is empty, the cache directory
\* holds no file, and both usage counts are 0 for every model.
C22_ClearEmptiesAll ==
  [][\A s \in Sessions :
       HistoryCleared(s) =>
         /\ history' = <<>>
         /\ history_cache' = {}
         /\ \A m \in Range(Models) :
              LET after == RecordedIn(usage_log', settings', m)
              IN  /\ CountIn(after, now', MINUTE_WINDOW) = 0
                  /\ CountIn(after, now', DAY_WINDOW) = 0]_vars

\* C22's case: "Clear History" was pressed right after a batch whose task
\* succeeded, in the same second: the task is still under review, and the
\* ledger counts nothing
C22_ClearedAfterSuccess ==
  \E s \in Sessions :
    /\ button[s] = "clear" /\ now = 0
    /\ \E i \in 1..Len(batch_results[s]) : HasVersion(batch_results[s][i])
    /\ history = <<>> /\ history_cache = {}
    /\ \A m \in Range(Models) : count_last_86400s(m) = 0

\* the step removes the temp directory of session s: "Start New Batch", or a
\* validated submission that replaces the batch
StorageReleased(s) ==
  /\ batch_temp_dir[s] # 0
  /\ DirExists(disk, batch_temp_dir[s])
  /\ ~DirExists(disk', batch_temp_dir[s])

\* C23: discarding or replacing a batch session leaves the history log and
\* the cache as they were, and every entry of the log still names a file
\* that is in the cache.
C23_HistorySurvivesRelease ==
  [][\A s \in Sessions :
       StorageReleased(s) =>
         /\ history' = history
         /\ history_cache' = history_cache
         /\ \A k \in 1..Len(history') :
              history'[k].audio_path \in history_cache']_vars

\* C23's case: the batch whose success is in the log was discarded, no temp
\* directory is left, and the entry's cached file is there
C23_EntryOutlivesBatch ==
  \E s \in Sessions :
    /\ button[s] = "new_batch"
    /\ DOMAIN disk = {}
    /\ Len(history) = 1
    /\ history[1].audio_path \in history_cache

\* the step is a call of log_request by session s (in the ledger study
\* every recorded call is one)
LogCalled(s) == Len(calls'[s]) = Len(calls[s]) + 1

\* how many of the session's calls so far were for model m
CallsFor(s, m) == Cardinality({k \in 1..Len(calls[s]) : calls[s][k].model = m})

\* the positions of m's stored timestamps that are 25 hours old or older
Stale(m) == {k \in 1..Len(Recorded(m)) : now - Recorded(m)[k] >= DAY_WINDOW + 3600}

\* C24: log_request(m) at time now leaves for m the timestamps stored
\* before that are less than 86400 s old, followed by now, and leaves every
\* other model's timestamps as they were; on a ledger that starts empty, k
\* calls for m with no time passing give the counts (k, k); a timestamp 25
\* hours old is not counted in the day count.
C24_LogRequestLedger ==
  /\ [][\A s \in Sessions :
          LogCalled(s) =>
            LET m == calls'[s][Len(calls'[s])].model
            IN  /\ RecordedIn(usage_log', settings', m)
                     = Append(LastDay(Recorded(m), now), now)
                /\ \A o \in Range(Models) \ {m} :
                     RecordedIn(usage_log', settings', o) = Recorded(o)]_vars
  /\ (usage_log = NoFile =>
        [](ticks = 0 =>
             \A s \in Sessions : \A m \in Range(Models) :
               GetUsageStats(m, settings, usage_log, now)
                 = [used_min |-> CallsFor(s, m), used_day |-> CallsFor(s, m)]))
  /\ [](\A m \in Range(Models) :
          /\ GetUsageStats(m, settings, usage_log, now).used_day
               = count_last_86400s(m)
          /\ count_last_86400s(m) <= Len(Recorded(m)) - Cardinality(Stale(m)))

\* C24's case: three requests were logged for one model while the other
\* model's list still holds a timestamp 25 hours old, with no time passing
C24_ThreeLoggedBesideStale ==
  \E s \in Sessions : \E m, o \in Range(Models) :
    /\ m # o /\ ticks = 0
    /\ CallsFor(s, m) = 3
    /\ count_last_60s(m) = 3 /\ count_last_86400s(m) = 3
    /\ Stale(o) # {} /\ count_last_86400s(o) < Len(Recorded(o))

\* the step is the generation call of a batch task, whatever it returned
BatchAttempt(s) == pc[s] = "generate" /\ Len(calls'[s]) = Len(calls[s]) + 1

\* progress_bar.progress(k / N) was the last thing reported in the step
ProgressReported(s, k, n) == progress'[s] = Append(progress[s], <<k, n>>)

\* C25 as stated: progress k / N is reported after the k-th task whether it
\* succeeded, failed, raised or was denied.
C25_AsStated ==
  [][\A s \in Sessions :
       (BatchAttempt(s) \/ DeniedAtTask(s)) =>
         ProgressReported(s, idx[s], Len(parsed_tasks[s]))]_vars

\* C25: progress k / N is reported after the k-th task of a run over N
\* tasks whenever its generation call was made, whether it succeeded,
\* returned a failure or raised; a task denied by the rate limiter ends the
\* run with no progress reported for it.
C25_ProgressAfterAttempt ==
  /\ [][\A s \in Sessions :
          /\ BatchAttempt(s) =>
               ProgressReported(s, idx[s], Len(parsed_tasks[s]))
          /\ DeniedAtTask(s) => progress'[s] = progress[s]]_vars
  /\ [](\A s \in Sessions : \A j \in 2..Len(progress[s]) :
          /\ progress[s][j][1] = j - 1
          /\ pc[s] # "idle" => progress[s][j][2] = Len(parsed_tasks[s]))

\* C25's case: in a run over two tasks the first call was made and progress
\* 1/2 was reported, then the second task was denied and nothing more was
\* reported
C25_DeniedAfterFirst ==
  \E s \in Sessions :
    /\ pc[s] = "idle" /\ button[s] = "generate" /\ ~allowed[s]
    /\ Len(calls[s]) = 1 /\ calls[s][1].task = 1
    /\ progress[s] = << <<0, 1>>, <<1, 2>> >>

\* C26: every version of every task under review is a file that exists in
\* the temp directory the session records; tasks of a released session are
\* never under review.
C26_ResultsBackedByStorage ==
  \A s \in Sessions : \A i \in 1..Len(batch_results[s]) :
    \A k \in 1..Len(batch_results[s][i].versions) :
      LET version == batch_results[s][i].versions[k]
      IN  /\ version.dir = batch_temp_dir[s]
          /\ FileExists(disk, version)

\* the download button is shown to session s: the review screen is up, the
\* session holds an archive path and the archive file is there (lines 404-413)
ArchiveOffered(s) ==
  /\ pc[s] = "idle"
  /\ batch_results[s] # <<>>
  /\ final_zip_path[s] # 0
  /\ DirExists(disk, final_zip_path[s])
  /\ disk[final_zip_path[s]].zip.built

\* C27: whenever an archive is offered for download, each of its entries
\* holds the currently selected version of the task it is named after.
C27_OfferedArchiveCurrent ==
  \A s \in Sessions :
    ArchiveOffered(s) =>
      LET archive == disk[final_zip_path[s]].zip
      IN  \A k \in 1..Len(archive.entries) :
            \E i \in 1..Len(batch_results[s]) :
              /\ batch_results[s][i].filename = archive.entries[k].arcname
              /\ IndexOk(batch_results[s][i])
              /\ SelectedFile(batch_results[s][i]) = archive.entries[k].file

\* C28: no two tasks under review share a version file, and the entries of
\* a built archive in the session's temp directory have pairwise distinct
\* names, at most one per task.
C28_DistinctFilesAndNames ==
  \A s \in Sessions :
    /\ \A i, j \in 1..Len(batch_results[s]) :
         i # j => Range(batch_results[s][i].versions)
                    \cap Range(batch_results[s][j].versions) = {}
    /\ TempPresent(s) =>
         LET archive == disk[batch_temp_dir[s]].zip
         IN  /\ Len(archive.entries) <= Len(batch_results[s])
             /\ \A k, l \in 1..Len(archive.entries) :
                  k # l => archive.entries[k].arcname # archive.entries[l].arcname

\* C29: in every task attempt of a batch run the model passed to
\* generate_speech, which is the one log_request then records, is the model
\* whose limits check_limit evaluated for that task.
C29_OneModelPerAttempt ==
  [][\A s \in Sessions :
       BatchAttempt(s) =>
         LET c == calls'[s][Len(calls'[s])]
         IN  /\ c.model = active_model[s]
             /\ c.outcome = "ok" =>
                  /\ RecordedIn(usage_log', settings', c.model)
                       = Append(LastDay(Recorded(c.model), now), now)
                  /\ \A o \in Range(Models) \ {c.model} :
                       RecordedIn(usage_log', settings', o) = Recorded(o)]_vars

\* C30: the list of known models is never empty and has no duplicates, the
\* active model is in the list, and every listed model has an entry in
\* model_limits.
C30_ModelsConsistent ==
  /\ settings.models # <<>>
  /\ \A i, j \in 1..Len(settings.models) :
       i # j => settings.models[i] # settings.models[j]
  /\ settings.active_model \in Range(settings.models)
  /\ \A m \in Range(settings.models) : m \in DOMAIN settings.model_limits

\* C30's case: the only model was deleted while it was the active one, and
\* the fallback model took its place with limits of its own
C30_FallbackAfterLastDelete ==
  /\ settings.models = <<FALLBACK_MODEL>>
  /\ settings.active_model = FALLBACK_MODEL
  /\ DOMAIN settings.model_limits = {FALLBACK_MODEL}

=============================================================================
